---- MODULE Spec2Model ----
(***************************************************************************)
(* Model of src/ETL.py: a sequential extract / transform / load pipeline.  *)
(* The state is the position of the __main__ block, the fetched body, the  *)
(* tables and statistics it holds, the files of data_output, stdout, and   *)
(* the exception (if any) that left the script.                            *)
(***************************************************************************)
EXTENDS Integers, Sequences, FiniteSets, TLC

VARIABLES pc, data, requests, df_raw, df_usuarios, stats, files, out,
          started, failed, uncaught, cut_in, cut_out

vars == <<pc, data, requests, df_raw, df_usuarios, stats, files, out,
          started, failed, uncaught, cut_in, cut_out>>

(* ------------------------------ bounds -------------------------------- *)
\* Largest number of records in a fetched "results" list.
MaxRecords == 2
\* Largest age the binning is tried on (SpecCut).
MaxAge == 120

(* --------------------------- values and tables ------------------------ *)
\* pandas' missing value in a text / categorical cell.
NaN == "NaN"

\* The six source columns, the keys of RENAME_COLS.
SourceCols == {"gender", "name.first", "name.last", "nat", "dob.age", "location.country"}

RENAME_COLS(c) ==
    CASE c = "gender" -> "Genero"
      [] c = "name.first" -> "Nombre"
      [] c = "name.last" -> "Apellido"
      [] c = "nat" -> "Nacionalidad"
      [] c = "dob.age" -> "Edad"
      [] c = "location.country" -> "Pais"

BINS == <<18, 30, 40, 50, 60, 70, 100>>
LABELS == <<"18-29", "30-39", "40-49", "50-59", "60-69", "70+">>

\* Python's None where a DataFrame is expected, and a DataFrame.
NoTable == [kind |-> "None", cols |-> {}, rows |-> <<>>]
DataFrame(cols, rows) == [kind |-> "DataFrame", cols |-> cols, rows |-> rows]

\* The value api_etl returns: None, or the parsed JSON body (a dict with the
\* given top-level keys whose "results", when present, is null or a list).
NoneData == [kind |-> "None", keys |-> {}, isnull |-> FALSE, results |-> <<>>]
Body(keys, isnull, recs) == [kind |-> "dict", keys |-> keys, isnull |-> isnull, results |-> recs]
EmptyBody == Body({}, FALSE, <<>>)
ErrorBody == Body({"error"}, FALSE, <<>>)
NullResults == Body({"results", "info"}, TRUE, <<>>)
ListBody(recs) == Body({"results", "info"}, FALSE, recs)

\* Values the fetched records carry.
Genders == {"male", "female", NaN}
Ages == {17, 18, 99, 100}

\* One flattened record with the columns cs: its gender g and age a, and a
\* fixed text in the other fields.
Record(cs, g, a) ==
    [c \in cs |-> IF c = "gender" THEN g ELSE IF c = "dob.age" THEN a ELSE "x"]

(* ------------------------------ api_etl ------------------------------- *)
\* Outcomes of the one requests.get: the call raises, raise_for_status()
\* raises, or the body is parsed.
FetchFailures == {"ConnectionError", "HTTPError"}

\* (variant: the failure is reported as an error dict instead of None)
api_etl_error_dict(outcome, body) ==
    IF outcome \in FetchFailures THEN ErrorBody ELSE body

api_etl(outcome, body) ==
    IF outcome \in FetchFailures THEN NoneData ELSE body

\* (variant: the test of the fetched value is left out)
TruthyAlways(d) == TRUE

\* `if data:` -- None and {} are falsy.
Truthy(d) == d.kind = "dict" /\ d.keys # {}

(* --------------------------- json_normalize --------------------------- *)
\* pd.json_normalize(data["results"]): the exception it raises, or "" .
NormalizeError(d) ==
    IF d.kind # "dict" THEN "TypeError"
    ELSE IF "results" \notin d.keys THEN "KeyError"
    ELSE IF d.isnull THEN "NotImplementedError"
    ELSE ""

UnionCols(recs) == UNION {DOMAIN recs[i] : i \in 1..Len(recs)}

json_normalize(recs) ==
    LET cols == UnionCols(recs)
    IN DataFrame(cols,
         [i \in 1..Len(recs) |->
            [c \in cols |-> IF c \in DOMAIN recs[i] THEN recs[i][c] ELSE NaN]])

(* ------------------------------- pd.cut ------------------------------- *)
\* (variant: side="left", what pd.cut uses when right=False is left out)
searchsorted_left(bins, x) == Cardinality({i \in 1..Len(bins) : bins[i] < x})

\* bins.searchsorted(x, side="right"): the number of edges at or below x.
searchsorted(bins, x) == Cardinality({i \in 1..Len(bins) : bins[i] <= x})

\* pd.cut(x, bins, labels, right=False) of one value.
cut(x, bins, labels) ==
    LET ids == searchsorted(bins, x)
    IN IF ids = 0 \/ ids = Len(bins) THEN NaN ELSE labels[ids]

(* ------------------------------ transform ----------------------------- *)
\* The three columns cast with astype("category").
CategoryCols == {"Genero", "Nacionalidad", "Pais"}

columnas_seleccionadas(df) == {c \in SourceCols : c \in df.cols}

\* The result of transform(data): what it returns (ret), or the exception
\* that leaves it (exc), and the message it prints.
TResult(ret, exc, msg) == [ret |-> ret, exc |-> exc, msg |-> msg]

transform(d) ==
    IF ~Truthy(d) \/ "results" \notin d.keys
    THEN TResult(NoTable, "", "Error: No se recibieron datos validos")
    ELSE IF d.isnull THEN TResult(NoTable, "NotImplementedError", "")
    ELSE LET df == json_normalize(d.results)
             sel == columnas_seleccionadas(df)
             renamed == {RENAME_COLS(c) : c \in sel}
         IN IF "dob.age" \notin sel
            THEN TResult(NoTable, "", "Error: La columna 'dob.age' no se encontro")
            ELSE IF ~(CategoryCols \subseteq renamed)
            THEN TResult(NoTable, "KeyError", "")
            ELSE TResult(
                   DataFrame(renamed \cup {"RangoEdad"},
                     [i \in 1..Len(df.rows) |->
                        [k \in renamed \cup {"RangoEdad"} |->
                           IF k = "RangoEdad"
                           THEN cut(df.rows[i]["dob.age"], BINS, LABELS)
                           ELSE df.rows[i][CHOOSE c \in sel : RENAME_COLS(c) = k]]]),
                   "", "")
(* ------------------------- calculate_statistics ----------------------- *)
RECURSIVE SumOver(_, _)
\* The sum of f[x] over the finite set S.
SumOver(f, S) ==
    IF S = {} THEN 0
    ELSE LET x == CHOOSE y \in S : TRUE IN f[x] + SumOver(f, S \ {x})

\* A mean kept exact, as numerator and denominator.
Mean(df, I) == [num |-> SumOver([i \in I |-> df.rows[i]["Edad"]], I), den |-> Cardinality(I)]

RowsWhere(df, col, v) == {i \in 1..Len(df.rows) : df.rows[i][col] = v}

\* The categories of a column cast with astype("category"): its distinct
\* non-missing values.
Categories(df, col) == {df.rows[i][col] : i \in 1..Len(df.rows)} \ {NaN}

\* (variant: value_counts(dropna=False))
value_counts_keepna(df, col) ==
    [v \in {df.rows[i][col] : i \in 1..Len(df.rows)} |-> Cardinality(RowsWhere(df, col, v))]

\* Series.value_counts(): one count per category, missing values dropped.
value_counts(df, col) ==
    [v \in Categories(df, col) |-> Cardinality(RowsWhere(df, col, v))]

NoStats == [computed |-> FALSE, average_age |-> [num |-> 0, den |-> 0],
            gender_counts |-> <<>>, avg_age_by_gender |-> <<>>]

calculate_statistics(df) ==
    [computed |-> TRUE,
     average_age |-> Mean(df, 1..Len(df.rows)),
     gender_counts |-> value_counts(df, "Genero"),
     avg_age_by_gender |->
        [v \in Categories(df, "Genero") |-> Mean(df, RowsWhere(df, "Genero", v))]]

(* ------------------------ save_statistics_to_csv ---------------------- *)
\* round(2) of num/den, in hundredths (ties to even, as numpy rounds).
Round2(num, den) ==
    LET q == (100 * num) \div den
        r == (100 * num) % den
    IN IF 2 * r < den THEN q
       ELSE IF 2 * r > den THEN q + 1
       ELSE IF q % 2 = 0 THEN q ELSE q + 1

\* The rows of statistics_summary.csv (Valor in hundredths).
stats_df(st) ==
    {[Metrica |-> "Edad_Media_Total", Categoria |-> "General",
      Valor |-> Round2(st.average_age.num, st.average_age.den)]}
    \cup {[Metrica |-> "Conteo_Genero", Categoria |-> v,
           Valor |-> Round2(st.gender_counts[v], 1)] : v \in DOMAIN st.gender_counts}
    \cup {[Metrica |-> "Edad_Media_Genero", Categoria |-> v,
           Valor |-> Round2(st.avg_age_by_gender[v].num, st.avg_age_by_gender[v].den)] :
             v \in DOMAIN st.avg_age_by_gender}

(* ------------------------------ make_plots ---------------------------- *)
\* The three charts, in the order make_plots draws them.
Charts == <<"distribucion_edad.png", "barras_nacionalidad.png", "barras_rango_edad.png">>

\* (variant: only the first chart is drawn inside a try)
ChartCaughtFirstOnly(k) == k = 1

\* Each chart is drawn inside its own try / except Exception.
ChartCaught(k) == TRUE

\* make_plots run with the charts of `failing` raising while they are drawn
\* or saved: the charts attempted, those saved, the errors printed, and the
\* chart whose exception left the function ("" when none did).
RECURSIVE plots_from(_, _, _)
plots_from(k, failing, acc) ==
    IF k > Len(Charts) \/ acc.exc # "" THEN acc
    ELSE LET c == Charts[k]
             tried == [acc EXCEPT !.attempted = Append(@, c)]
         IN IF c \notin failing
            THEN plots_from(k + 1, failing, [tried EXCEPT !.saved = @ \cup {c}])
            ELSE IF ChartCaught(k)
            THEN plots_from(k + 1, failing, [tried EXCEPT !.errors = @ \cup {c}])
            ELSE [tried EXCEPT !.exc = c]

make_plots(failing) ==
    plots_from(1, failing, [attempted |-> <<>>, saved |-> {}, errors |-> {}, exc |-> ""])
(* ------------------------------- __main__ ----------------------------- *)
FileNames == {"raw_users.csv", "clean_users.csv", "statistics_summary.csv",
              "distribucion_edad.png", "barras_nacionalidad.png", "barras_rango_edad.png"}

\* The stages, in the order __main__ runs them.
StageOrder == <<"fetch", "normalize", "write_raw", "transform", "write_clean",
                "aggregate", "write_stats", "plots">>

\* The steps that run inside a try / except Exception: the raw block of
\* __main__ (normalize, write) and the write of save_statistics_to_csv.
\* df_usuarios.to_csv(clean_path) runs outside any try.
TryExcept(stage) == stage \in {"normalize", "write_raw", "write_stats"}

NoException == [stage |-> "", exc |-> ""]
Exception(stage, exc) == [stage |-> stage, exc |-> exc]

Init ==
    /\ pc = "extract"
    /\ data = NoneData
    /\ requests = 0
    /\ df_raw = NoTable
    /\ df_usuarios = NoTable
    /\ stats = NoStats
    /\ files = [f \in FileNames |-> <<>>]
    /\ out = <<"Iniciando Proceso ETL...">>
    /\ started = <<>>
    /\ failed = {}
    /\ uncaught = NoException
    /\ cut_in = 0
    /\ cut_out = ""

\* After data = api_etl(...): `if data:` ... else: print and stop.
AfterExtract(outcome, d, printed) ==
    /\ data' = d
    /\ requests' = requests + 1
    /\ started' = Append(started, "fetch")
    /\ IF Truthy(d)
       THEN /\ pc' = "normalize"
            /\ out' = out \o printed
       ELSE /\ pc' = "done"
            /\ out' = out \o printed \o <<"Error durante la extraccion, el proceso se ha detenido.">>
    /\ failed' = IF outcome \in FetchFailures THEN failed \cup {"fetch"} ELSE failed
    /\ UNCHANGED <<df_raw, df_usuarios, stats, files, uncaught, cut_in, cut_out>>

\* api_etl: requests.get or raise_for_status raises a RequestException.
ExtractFails ==
    /\ pc = "extract"
    /\ \E outcome \in FetchFailures :
         AfterExtract(outcome, api_etl(outcome, EmptyBody),
                      <<"Extrayendo usuarios de la API...", "Error extrayendo los datos">>)

\* api_etl: the GET succeeds and response.json() is returned.
ExtractReturns ==
    /\ pc = "extract"
    /\ \E body \in {EmptyBody, ErrorBody, NullResults} :
         AfterExtract("ok", api_etl("ok", body), <<"Extrayendo usuarios de la API...">>)

\* api_etl: the GET succeeds with a list of records under "results".
ExtractReturnsRecords ==
    /\ pc = "extract"
    /\ \E cs \in SUBSET SourceCols, n \in 0..MaxRecords :
         \E g \in [1..n -> Genders], a \in [1..n -> Ages] :
            AfterExtract("ok", api_etl("ok", ListBody([i \in 1..n |-> Record(cs, g[i], a[i])])),
                         <<"Extrayendo usuarios de la API...">>)

\* df_raw = pd.json_normalize(data["results"]), inside the raw try block.
Normalize ==
    /\ pc = "normalize"
    /\ started' = Append(started, "normalize")
    /\ IF NormalizeError(data) # ""
       THEN IF TryExcept("normalize")
            THEN /\ pc' = "transform"
                 /\ out' = out \o <<"Normalizando y guardando datos crudos...",
                                    "Error al guardar raw_users.csv">>
                 /\ UNCHANGED uncaught
            ELSE /\ pc' = "crashed"
                 /\ out' = Append(out, "Normalizando y guardando datos crudos...")
                 /\ uncaught' = Exception("normalize", NormalizeError(data))
       ELSE /\ pc' = "write_raw"
            /\ out' = Append(out, "Normalizando y guardando datos crudos...")
            /\ UNCHANGED uncaught
    /\ df_raw' = IF NormalizeError(data) # "" THEN df_raw ELSE json_normalize(data.results)
    /\ failed' = IF NormalizeError(data) # "" THEN failed \cup {"normalize"} ELSE failed
    /\ UNCHANGED <<data, requests, df_usuarios, stats, files, cut_in, cut_out>>

\* A write of `file` (holding `content`) at `stage`, which the file system
\* lets succeed or fail; `next` is the step after it.
Write(stage, file, content, okmsg, errmsg, next) ==
    /\ started' = Append(started, stage)
    /\ \E ok \in BOOLEAN :
         IF ok
         THEN /\ files' = [files EXCEPT ![file] = <<content>>]
              /\ out' = Append(out, okmsg)
              /\ pc' = next
              /\ UNCHANGED <<failed, uncaught>>
         ELSE /\ failed' = failed \cup {file}
              /\ UNCHANGED files
              /\ IF TryExcept(stage)
                 THEN /\ out' = Append(out, errmsg)
                      /\ pc' = next
                      /\ UNCHANGED uncaught
                 ELSE /\ pc' = "crashed"
                      /\ uncaught' = Exception(stage, "OSError")
                      /\ UNCHANGED out

\* df_raw.to_csv(raw_path), inside the raw try block.
WriteRaw ==
    /\ pc = "write_raw"
    /\ Write("write_raw", "raw_users.csv", df_raw, "Datos crudos guardados",
             "Error al guardar raw_users.csv", "transform")
    /\ UNCHANGED <<data, requests, df_raw, df_usuarios, stats, cut_in, cut_out>>

\* (variant: the None test after transform is left out)
AfterTransformUnchecked(res) ==
    IF res.exc # "" THEN "crashed" ELSE "write_clean"

\* After df_usuarios = transform(data): `if df_usuarios is not None:` ... else.
AfterTransform(res) ==
    IF res.exc # "" THEN "crashed"
    ELSE IF res.ret.kind = "None" THEN "done"
    ELSE "write_clean"

Transform ==
    /\ pc = "transform"
    /\ started' = Append(started, "transform")
    /\ LET res == transform(data)
       IN /\ pc' = AfterTransform(res)
          /\ df_usuarios' = res.ret
          /\ uncaught' = IF res.exc # "" THEN Exception("transform", res.exc) ELSE uncaught
          /\ failed' = IF res.exc # "" \/ res.ret.kind = "None"
                       THEN failed \cup {"transform"} ELSE failed
          /\ out' = out \o <<"Transformando datos...">>
                        \o (IF res.msg # "" THEN <<res.msg>> ELSE <<>>)
                        \o (IF res.exc = "" /\ res.ret.kind = "None"
                            THEN <<"Error durante la transformacion, no se generaran graficos ni CSV limpio.">>
                            ELSE <<>>)
    /\ UNCHANGED <<data, requests, df_raw, stats, files, cut_in, cut_out>>

\* df_usuarios.to_csv(clean_path); of None it would be an AttributeError,
\* which the `is not None` test before it rules out.
WriteClean ==
    /\ pc = "write_clean"
    /\ IF df_usuarios.kind = "None"
       THEN /\ started' = Append(started, "write_clean")
            /\ pc' = "crashed"
            /\ uncaught' = Exception("write_clean", "AttributeError")
            /\ UNCHANGED <<files, out, failed>>
       ELSE Write("write_clean", "clean_users.csv", df_usuarios, "Datos limpios guardados",
                  "", "statistics")
    /\ UNCHANGED <<data, requests, df_raw, df_usuarios, stats, cut_in, cut_out>>

\* stats = calculate_statistics(df_usuarios) and the three prints after it.
CalculateStatistics ==
    /\ pc = "statistics"
    /\ started' = Append(started, "aggregate")
    /\ stats' = calculate_statistics(df_usuarios)
    /\ out' = out \o <<"Calculando estadisticas...", "Edad media total",
                       "Conteo por genero", "Edad media por genero">>
    /\ pc' = "write_stats"
    /\ UNCHANGED <<data, requests, df_raw, df_usuarios, files, failed, uncaught, cut_in, cut_out>>

\* save_statistics_to_csv(stats, OUTPUT_DIR).
SaveStatistics ==
    /\ pc = "write_stats"
    /\ Write("write_stats", "statistics_summary.csv", stats_df(stats),
             "Estadisticas guardadas", "Error al guardar el CSV de estadisticas", "plots")
    /\ UNCHANGED <<data, requests, df_raw, df_usuarios, stats, cut_in, cut_out>>

\* make_plots(df_usuarios, stats, OUTPUT_DIR) and the closing print.
MakePlots ==
    /\ pc = "plots"
    /\ started' = Append(started, "plots")
    /\ \E failing \in SUBSET {Charts[k] : k \in 1..Len(Charts)} :
         LET r == make_plots(failing)
         IN /\ files' = [f \in FileNames |-> IF f \in r.saved THEN <<"png">> ELSE files[f]]
            /\ failed' = failed \cup {r.attempted[k] : k \in {j \in 1..Len(r.attempted) : r.attempted[j] \in failing}}
            /\ out' = out \o <<"Generando graficos...">>
                          \o [k \in 1..Len(r.attempted) |->
                                IF r.attempted[k] \in r.saved THEN "Grafico guardado"
                                ELSE IF r.attempted[k] \in r.errors THEN "Error al generar grafico"
                                ELSE "Traceback"]
                          \o (IF r.exc = "" THEN <<"Proceso ETL completado.">> ELSE <<>>)
            /\ pc' = IF r.exc = "" THEN "done" ELSE "crashed"
            /\ uncaught' = IF r.exc = "" THEN uncaught ELSE Exception("plots", "Exception")
    /\ UNCHANGED <<data, requests, df_raw, df_usuarios, stats, cut_in, cut_out>>

Next ==
    \/ ExtractFails
    \/ ExtractReturns
    \/ ExtractReturnsRecords
    \/ Normalize
    \/ WriteRaw
    \/ Transform
    \/ WriteClean
    \/ CalculateStatistics
    \/ SaveStatistics
    \/ MakePlots

Spec == Init /\ [][Next]_vars

(* ---------------------- the binning, on every age --------------------- *)
\* transform() applied to a one-record body of age cut_in: the RangoEdad
\* it derives.
InitCut ==
    /\ pc = "cut"
    /\ data = NoneData
    /\ requests = 0
    /\ df_raw = NoTable
    /\ df_usuarios = NoTable
    /\ stats = NoStats
    /\ files = [f \in FileNames |-> <<>>]
    /\ out = <<>>
    /\ started = <<>>
    /\ failed = {}
    /\ uncaught = NoException
    /\ cut_in \in 0..MaxAge
    /\ cut_out = ""

CutStep ==
    /\ pc = "cut"
    /\ pc' = "cut_done"
    /\ data' = ListBody(<<Record(SourceCols, "male", cut_in)>>)
    /\ df_usuarios' = transform(data').ret
    /\ uncaught' = Exception(IF transform(data').exc = "" THEN "" ELSE "transform", transform(data').exc)
    /\ cut_out' = IF df_usuarios'.kind = "DataFrame" THEN df_usuarios'.rows[1]["RangoEdad"] ELSE ""
    /\ UNCHANGED <<requests, df_raw, stats, files, out, started, failed, cut_in>>

NextCut == CutStep

SpecCut == InitCut /\ [][NextCut]_vars
(* ============================ properties ============================== *)
Range(q) == {q[i] : i \in 1..Len(q)}
StageIndex(st) == CHOOSE i \in 1..Len(StageOrder) : StageOrder[i] = st
Absent(f) == files[f] = <<>>
ChartFiles == Range(Charts)
Count(q, m) == Cardinality({i \in 1..Len(q) : q[i] = m})

\* The body holds a list under "results".
HasList(d) == d.kind = "dict" /\ "results" \in d.keys /\ ~d.isnull
\* ... a non-empty list whose records all carry dob.age.
EveryRecordHasAge(d) ==
    /\ HasList(d)
    /\ Len(d.results) >= 1
    /\ \A i \in 1..Len(d.results) : "dob.age" \in DOMAIN d.results[i]
\* ... a list none of whose records carries dob.age.
NoAgeColumn(d) == HasList(d) /\ "dob.age" \notin UnionCols(d.results)
TransformRan == "transform" \in Range(started)

\* C1: for every body whose "results" is a non-empty list of records that
\* all carry a numeric dob.age, transform() returns a table with one row per
\* record, in input order, whose RangoEdad is set iff 18 <= Edad < 100.
C1_OneRowPerRecord ==
    (EveryRecordHasAge(data) /\ TransformRan) =>
        /\ df_usuarios.kind = "DataFrame"
        /\ Len(df_usuarios.rows) = Len(data.results)
        /\ \A i \in 1..Len(df_usuarios.rows) :
              /\ df_usuarios.rows[i]["Edad"] = data.results[i]["dob.age"]
              /\ (df_usuarios.rows[i]["RangoEdad"] # NaN)
                    <=> (18 <= df_usuarios.rows[i]["Edad"] /\ df_usuarios.rows[i]["Edad"] < 100)

\* The bucket the documented edges 18,30,40,50,60,70,100 give an age.
ExpectedBucket(a) ==
    IF 18 <= a /\ a < 30 THEN "18-29"
    ELSE IF 30 <= a /\ a < 40 THEN "30-39"
    ELSE IF 40 <= a /\ a < 50 THEN "40-49"
    ELSE IF 50 <= a /\ a < 60 THEN "50-59"
    ELSE IF 60 <= a /\ a < 70 THEN "60-69"
    ELSE IF 70 <= a /\ a < 100 THEN "70+"
    ELSE NaN

\* C2: the RangoEdad transform() derives is the left-inclusive,
\* right-exclusive bucket of the age, and the missing value (no error) for
\* an age below 18 or at or above 100.
C2_Binning ==
    pc = "cut_done" =>
        /\ uncaught = NoException
        /\ df_usuarios.kind = "DataFrame"
        /\ cut_out = ExpectedBucket(cut_in)

C2_Witness == pc = "cut_done" /\ cut_in = 100 /\ cut_out = NaN

\* C3: when the body is {} or {"results": null} no exception leaves the
\* run and neither clean_users.csv, statistics_summary.csv nor a chart is
\* written.
C3_MissingCollectionHandled ==
    (requests = 1 /\ (data = EmptyBody \/ data = NullResults)) =>
        /\ uncaught = NoException
        /\ \A f \in FileNames \ {"raw_users.csv"} : Absent(f)

\* The stages that write one of the three CSV files.
WriteStages == {"write_raw", "write_clean", "write_stats"}
CsvFiles == {"raw_users.csv", "clean_users.csv", "statistics_summary.csv"}

\* C4: a failed write of raw_users.csv, clean_users.csv or
\* statistics_summary.csv is caught and does not end the run: no exception
\* of a write stage leaves the script, and once the clean table exists a
\* failed write still lets the statistics and the charts follow.
C4_WriteFailuresIsolated ==
    /\ uncaught.stage \notin WriteStages
    /\ (pc \in {"done", "crashed"} /\ df_usuarios.kind = "DataFrame" /\ failed \cap CsvFiles # {})
          => ({"aggregate", "plots"} \subseteq Range(started))

\* C5: when the GET fails, api_etl returns None without raising, exactly
\* one request was made, and the run stops before normalization having
\* written no file.
C5_FetchFailureStops ==
    /\ requests <= 1
    /\ "fetch" \in failed =>
          /\ data.kind = "None"
          /\ requests = 1
          /\ pc = "done"
          /\ uncaught = NoException
          /\ started = <<"fetch">>
          /\ \A f \in FileNames : Absent(f)
          /\ Count(out, "Error extrayendo los datos") = 1

C5_Witness == "fetch" \in failed /\ pc = "done"

\* C6: when the normalized table has no dob.age column, transform()
\* returns no table; no clean CSV, statistics or chart follows, and the raw
\* CSV stays what the raw stage made of it.
C6_NoAgeColumnFails ==
    (NoAgeColumn(data) /\ TransformRan) =>
        /\ df_usuarios = NoTable
        /\ uncaught = NoException
        /\ pc = "done"
        /\ ~stats.computed
        /\ Range(started) \cap {"write_clean", "aggregate", "write_stats", "plots"} = {}
        /\ \A f \in FileNames \ {"raw_users.csv"} : Absent(f)
        /\ files["raw_users.csv"] =
              (IF "raw_users.csv" \in failed THEN <<>> ELSE <<json_normalize(data.results)>>)

C6_Witness ==
    /\ NoAgeColumn(data) /\ TransformRan
    /\ Len(data.results) = MaxRecords
    /\ ~Absent("raw_users.csv")

\* C7: the stages start in the order fetch, normalize, write raw,
\* transform, write clean, aggregate, write statistics, charts, and after a
\* failed fetch or a failed transform no later stage starts.
C7_StageOrder ==
    /\ \A i, j \in 1..Len(started) :
          i < j => StageIndex(started[i]) < StageIndex(started[j])
    /\ started # <<>> => started[1] = "fetch"
    /\ "fetch" \in failed => started = <<"fetch">>
    /\ "transform" \in failed => started[Len(started)] = "transform"

C7_Witness == pc = "done" /\ started = StageOrder

NonNullGender(df) == {i \in 1..Len(df.rows) : df.rows[i]["Genero"] # NaN}

\* C8 as stated: the per-gender counts sum to the number of rows of the
\* clean table, also when a gender is missing.
C8_CountsSumToRows ==
    stats.computed =>
        SumOver(stats.gender_counts, DOMAIN stats.gender_counts) = Len(df_usuarios.rows)

\* C8 amended: the per-gender counts sum to the number of rows whose gender
\* is not missing.
C8_CountsSumToGenderedRows ==
    stats.computed =>
        SumOver(stats.gender_counts, DOMAIN stats.gender_counts)
            = Cardinality(NonNullGender(df_usuarios))

C8_Witness ==
    /\ stats.computed
    /\ NonNullGender(df_usuarios) # {}
    /\ Cardinality(NonNullGender(df_usuarios)) < Len(df_usuarios.rows)

\* C9: make_plots attempts each of the three charts whichever of them
\* fail: a failed chart is logged, the others are saved, and no exception
\* leaves make_plots.
C9_ChartsIsolated ==
    "plots" \in Range(started) =>
        /\ pc = "done"
        /\ uncaught = NoException
        /\ \A c \in ChartFiles : IF c \in failed THEN Absent(c) ELSE files[c] = <<"png">>
        /\ Count(out, "Error al generar grafico") = Cardinality(failed \cap ChartFiles)
        /\ Count(out, "Grafico guardado") = Cardinality(ChartFiles \ failed)

C9_Witness ==
    /\ "plots" \in Range(started)
    /\ failed \cap ChartFiles = {Charts[1], Charts[2]}
    /\ ~Absent(Charts[3])

\* C10: for every set of source columns that holds dob.age, transform()
\* returns a table of the renamed present columns plus RangoEdad and raises
\* nothing.
C10_OnlyAgeRequired ==
    (EveryRecordHasAge(data) /\ TransformRan) =>
        /\ uncaught.stage # "transform"
        /\ df_usuarios.cols = {RENAME_COLS(c) : c \in UnionCols(data.results) \cap SourceCols}
                                 \cup {"RangoEdad"}
====
